---- MODULE Spec2Model ----
(***************************************************************************)
(* Model of the alert scheduling and evaluation engine of server.js:       *)
(* setupCronJobs (the rebuild of the cron timers from the Alert table),    *)
(* checkAqiAndSendAlert (one firing of a timer), the POST /alert handler   *)
(* and the app.listen callback that start rebuilds.                        *)
(*                                                                         *)
(* Every await of the source is a point where other callbacks may run, so  *)
(* each async function is cut into one action per continuation.  node-cron *)
(* is modelled by its task registry: cron.schedule validates the           *)
(* expression (throwing on an invalid one), registers a task and starts    *)
(* it; task.stop() stops the task and leaves it in cron.getTasks().        *)
(***************************************************************************)
EXTENDS Integers, Sequences, FiniteSets, TLC

\* ---------------------------------------------------------------- bounds
MaxPersisted == 2   \* rows of the Alert table when the process starts
MaxRebuilds == 2    \* setupCronJobs invocations (startup and one per created alert)
MaxFirings == 1     \* checkAqiAndSendAlert invocations
MaxConcurrent == 2  \* checkAqiAndSendAlert invocations where firings overlap

\* ---------------------------------------------------------------- inputs
\* alertTime strings, written as the fields alertTime.split(':') yields:
\* "08:00" is <<8, 0>>, "0800" (no colon) is <<800>>.
AlertTimes == { <<8, 0>>, <<800>> }
\* A JavaScript number as the threshold column holds it: a finite value or NaN.
Number(n) == [nan |-> FALSE, value |-> n]
NaN == [nan |-> TRUE, value |-> 0]
Finite(x) == ~x.nan
\* Thresholds of the rows an earlier run persisted.
Thresholds == { Number(3) }
\* threshold of a POST /alert body, as sent: a numeric string or some text.
BodyThresholds == { "3", "abc" }
\* parseFloat(threshold), line 232
ParseFloat(str) == IF str = "3" THEN Number(3) ELSE NaN
Emails == { "a@x" }
\* main.aqi of the OpenWeather air_pollution payload
AqiLevels == 2 .. 4

\* Rows of the Alert table (id, alertTime, threshold, alertEmail; userId,
\* pollutant and createdAt are never read by the scheduler).
Alerts(ids) == [id : ids, alertTime : AlertTimes, threshold : Thresholds,
                alertEmail : Emails]

\* The Alert table a starting process can find: rows 1 .. n of an earlier run.
PersistedStores ==
    UNION { { s \in [1 .. n -> Alerts(1 .. n)] : \A i \in 1 .. n : s[i].id = i } :
            n \in 0 .. MaxPersisted }

\* What the awaited prisma.alert.findUnique of a firing can produce when the
\* row exists: the owner's name, a null name, or a rejection.
LookupOutcomes == { "name", "noname", "reject" }

\* What the awaited fetch / response.json() of a firing can produce.
\*   neterr  : fetch rejects         non2xx : response.ok is false
\*   notjson : response.json() rejects
\*   noList  : JSON without list[0].main (reading .aqi throws a TypeError)
\*   noAqi   : JSON with list[0].main but no aqi (the index is undefined)
\*   ok      : a well-formed payload
CaughtFetchFailures == { "neterr", "non2xx", "notjson" }
MalformedPayloads == { "noList", "noAqi" }
FetchFailures == CaughtFetchFailures \cup MalformedPayloads
Readings == [kind : FetchFailures, aqi : {0}] \cup [kind : {"ok"}, aqi : AqiLevels]

\* What the awaited resend.emails.send can produce.
SendOutcomes == { "ok", "error", "throw" }

\* ----------------------------------------------------------------- state
VARIABLES
    started,     \* the app.listen callback has run
    resend,      \* TRUE iff RESEND_API_KEY is set (resend is not null)
    rejections,  \* how this Node build treats an unhandled rejection
    exited,      \* what terminated the process, or <<>>
    store,       \* rows of the Alert table, in findMany order
    nextId,      \* next Alert id
    tasks,       \* cron.getTasks(): every task ever scheduled
    rebuilds,    \* setupCronJobs invocations, in start order
    completed,   \* ids of the finished setupCronJobs invocations, in order
    runs         \* checkAqiAndSendAlert invocations, in start order

vars == << started, resend, rejections, exited, store, nextId, tasks,
           rebuilds, completed, runs >>

Range(s) == { s[i] : i \in 1 .. Len(s) }

Alive == exited = << >>

\* Handles of the tasks that are scheduled and not stopped.
ActiveTimers == { t \in 1 .. Len(tasks) : tasks[t].running /\ Alive }

\* ------------------------------------------------------------ setupCronJobs
\* const [hour, minute] = alert.alertTime.split(':'); `${minute} ${hour} * * *`
\* is a valid cron expression iff both fields exist and are in range.
ValidCron(alertTime) ==
    /\ Len(alertTime) >= 2
    /\ alertTime[1] \in 0 .. 23
    /\ alertTime[2] \in 0 .. 59

\* Index of the first alert of the snapshot whose cron.schedule throws,
\* Len + 1 if none does.
RECURSIVE FirstInvalid(_, _)
FirstInvalid(alerts, i) ==
    IF i > Len(alerts) THEN i
    ELSE IF ~ValidCron(alerts[i].alertTime) THEN i
    ELSE FirstInvalid(alerts, i + 1)

\* cron.getTasks().forEach(task => task.stop())
StopAll(ts) == [t \in 1 .. Len(ts) |-> [ts[t] EXCEPT !.running = FALSE]]

\* alerts.forEach(alert => cron.schedule(...)): one running task per alert,
\* in order, up to the first alert whose expression is invalid.
Scheduled(alerts, r) ==
    [i \in 1 .. (FirstInvalid(alerts, 1) - 1) |->
        [alert |-> alerts[i], running |-> TRUE, by |-> r]]

\* A promise nobody handles was rejected (no caller awaits or catches
\* setupCronJobs() or checkAqiAndSendAlert(), and the file installs no
\* unhandledRejection handler): the process exits ("throw", the default of
\* every Node release that has the global fetch used at line 84) or, started
\* with --unhandled-rejections=warn, only warns.
Unhandled(who) == IF rejections = "throw" THEN who ELSE exited

\* The synchronous part of setupCronJobs(): stop every task, issue findMany.
\* created is the id of the alert whose creation made POST /alert call it,
\* 0 for the call of the app.listen callback.
StartRebuild(created) ==
    /\ tasks' = StopAll(tasks)
    /\ rebuilds' = Append(rebuilds,
          [pc |-> "await", returned |-> FALSE, alerts |-> << >>,
           before |-> ActiveTimers, doneAtStart |-> Range(completed),
           created |-> created])

\* prisma.alert.findMany() resolves: schedule the snapshot.
RebuildInstall(r) ==
    /\ Alive
    /\ r \in 1 .. Len(rebuilds)
    /\ rebuilds[r].pc = "await"
    /\ LET threw == FirstInvalid(store, 1) <= Len(store)
       IN /\ tasks' = tasks \o Scheduled(store, r)
          /\ rebuilds' = [rebuilds EXCEPT ![r].pc = IF threw THEN "rejected" ELSE "done",
                                          ![r].returned = TRUE,
                                          ![r].alerts = store]
          /\ exited' = IF threw THEN Unhandled(<< "rebuild", r >>) ELSE exited
    /\ completed' = Append(completed, r)
    /\ UNCHANGED << started, resend, rejections, store, nextId, runs >>

\* prisma.alert.findMany() rejects: setupCronJobs rejects at the await.
RebuildListFails(r) ==
    /\ Alive
    /\ r \in 1 .. Len(rebuilds)
    /\ rebuilds[r].pc = "await"
    /\ rebuilds' = [rebuilds EXCEPT ![r].pc = "rejected"]
    /\ exited' = Unhandled(<< "rebuild", r >>)
    /\ completed' = Append(completed, r)
    /\ UNCHANGED << started, resend, rejections, store, nextId, tasks, runs >>

\* app.listen(PORT, () => { ...; setupCronJobs(); })
Listen ==
    /\ Alive
    /\ ~started
    /\ started' = TRUE
    /\ StartRebuild(0)
    /\ UNCHANGED << resend, rejections, exited, store, nextId, completed, runs >>

\* ------------------------------------------------------------ POST /alert
\* req.body of POST /alert; an absent pollutant is "".
Bodies == [alertTime : AlertTimes, pollutant : { "pm25", "" },
           threshold : BodyThresholds, alertEmail : Emails]

\* !alertTime || !pollutant || !threshold || !alertEmail
MissingDetails(body) ==
    \/ body.alertTime = << >>
    \/ body.pollutant = ""
    \/ body.threshold = ""
    \/ body.alertEmail = ""

\* app.post('/alert'): validation, then (after the awaited create resolves)
\* the row is in the table, setupCronJobs() is called without await and,
\* in the same turn, 'Alert created successfully and scheduled.' is answered.
PostAlert(body) ==
    /\ Alive
    /\ started
    /\ IF MissingDetails(body)
       THEN UNCHANGED << store, nextId, tasks, rebuilds >>
       ELSE /\ Len(rebuilds) < MaxRebuilds
            /\ store' = Append(store,
                  [id |-> nextId, alertTime |-> body.alertTime,
                   threshold |-> ParseFloat(body.threshold), alertEmail |-> body.alertEmail])
            /\ nextId' = nextId + 1
            /\ StartRebuild(nextId)
    /\ UNCHANGED << started, resend, rejections, exited, completed, runs >>

\* app.post('/alert') when prisma.alert.create rejects: the catch answers 500
\* and setupCronJobs is not called.
PostAlertCreateFails ==
    /\ Alive
    /\ started
    /\ UNCHANGED << started, resend, rejections, exited, store, nextId, tasks,
                    rebuilds, completed, runs >>

\* A row of the Alert table is removed by another client of the database.
StoreDelete(id) ==
    /\ Alive
    /\ \E k \in 1 .. Len(store) :
          /\ store[k].id = id
          /\ store' = [j \in 1 .. (Len(store) - 1) |->
                          IF j < k THEN store[j] ELSE store[j + 1]]
    /\ UNCHANGED << started, resend, rejections, exited, nextId, tasks,
                    rebuilds, completed, runs >>

\* The row as another client of the database rewrites it: a new fire time,
\* threshold and recipient.
Edited(row) ==
    [row EXCEPT !.alertTime = << 9, 30 >>, !.threshold = Number(2),
                !.alertEmail = "b@x"]

\* A row of the Alert table is updated by another client of the database.
StoreUpdate(id) ==
    /\ Alive
    /\ \E k \in 1 .. Len(store) :
          /\ store[k].id = id
          /\ store[k] # Edited(store[k])
          /\ store' = [store EXCEPT ![k] = Edited(store[k])]
    /\ UNCHANGED << started, resend, rejections, exited, nextId, tasks,
                    rebuilds, completed, runs >>

\* ------------------------------------------------------ checkAqiAndSendAlert
\* Exceeds with the comparison taken non-strict.
ExceedsOrEqual(reading, threshold) ==
    /\ reading.kind = "ok"
    /\ Finite(threshold)
    /\ reading.aqi >= threshold.value

\* currentAqiValue > threshold; an undefined index compares false, and so
\* does any index against NaN.
Exceeds(reading, threshold) ==
    /\ reading.kind = "ok"
    /\ Finite(threshold)
    /\ reading.aqi > threshold.value

\* subject / htmlContent of the branch taken at line 97.
Verdict(reading, threshold) ==
    IF Exceeds(reading, threshold) THEN "high" ELSE "safe"

NoReading == [kind |-> "none", aqi |-> 0]

\* A running task's callback runs: checkAqiAndSendAlert(alert) with the
\* alert captured by the closure, up to its first await (findUnique).
\* Nothing in the callback looks at the invocations still in flight.
FireWithin(t, max) ==
    /\ t \in ActiveTimers
    /\ Len(runs) < max
    /\ runs' = Append(runs,
          [task |-> t, alert |-> tasks[t].alert, by |-> tasks[t].by,
           nDone |-> Len(completed), pc |-> "lookup", result |-> "",
           userName |-> "", fetches |-> 0, reading |-> NoReading,
           evals |-> 0, verdict |-> "", mails |-> << >>])
    /\ UNCHANGED << started, resend, rejections, exited, store, nextId, tasks,
                    rebuilds, completed >>

Fire(t) == FireWithin(t, MaxFirings)

\* The row of the table with the id of the alert, or the alert itself.
CurrentRow(alert) ==
    IF \E k \in 1 .. Len(store) : store[k].id = alert.id
    THEN store[CHOOSE k \in 1 .. Len(store) : store[k].id = alert.id]
    ELSE alert

\* RunLookup that goes on with the row read from the table instead of the
\* alert the timer was scheduled with.
RunLookupRefetch(i, outcome) ==
    /\ Alive
    /\ i \in 1 .. Len(runs)
    /\ runs[i].pc = "lookup"
    /\ IF outcome = "reject"
       THEN /\ runs' = [runs EXCEPT ![i].pc = "rejected", ![i].result = "lookupRejected"]
            /\ exited' = Unhandled(<< "run", i >>)
       ELSE IF \A k \in 1 .. Len(store) : store[k].id # runs[i].alert.id
       THEN /\ runs' = [runs EXCEPT ![i].pc = "done", ![i].result = "notFound"]
            /\ exited' = exited
       ELSE /\ runs' = [runs EXCEPT
                  ![i].pc = "fetch",
                  ![i].alert = CurrentRow(@),
                  ![i].userName = IF outcome = "name" THEN "Asha" ELSE "User",
                  ![i].fetches = @ + 1]
            /\ exited' = exited
    /\ UNCHANGED << started, resend, rejections, store, nextId, tasks,
                    rebuilds, completed >>

\* RunLookup without the test of line 76: a missing row is treated like a
\* row without a user name.
RunLookupNoCheck(i, outcome) ==
    /\ Alive
    /\ i \in 1 .. Len(runs)
    /\ runs[i].pc = "lookup"
    /\ IF outcome = "reject"
       THEN /\ runs' = [runs EXCEPT ![i].pc = "rejected", ![i].result = "lookupRejected"]
            /\ exited' = Unhandled(<< "run", i >>)
       ELSE /\ runs' = [runs EXCEPT
                  ![i].pc = "fetch",
                  ![i].userName =
                      IF outcome = "name"
                          /\ \E k \in 1 .. Len(store) : store[k].id = runs[i].alert.id
                      THEN "Asha" ELSE "User",
                  ![i].fetches = @ + 1]
            /\ exited' = exited
    /\ UNCHANGED << started, resend, rejections, store, nextId, tasks,
                    rebuilds, completed >>

\* findUnique settles (lines 68-78), then fetch(aqiUrl) is issued.
RunLookup(i, outcome) ==
    /\ Alive
    /\ i \in 1 .. Len(runs)
    /\ runs[i].pc = "lookup"
    /\ IF outcome = "reject"
       THEN /\ runs' = [runs EXCEPT ![i].pc = "rejected", ![i].result = "lookupRejected"]
            /\ exited' = Unhandled(<< "run", i >>)
       ELSE IF \A k \in 1 .. Len(store) : store[k].id # runs[i].alert.id
       THEN /\ runs' = [runs EXCEPT ![i].pc = "done", ![i].result = "notFound"]
            /\ exited' = exited
       ELSE /\ runs' = [runs EXCEPT
                  ![i].pc = "fetch",
                  ![i].userName = IF outcome = "name" THEN "Asha" ELSE "User",
                  ![i].fetches = @ + 1]
            /\ exited' = exited
    /\ UNCHANGED << started, resend, rejections, store, nextId, tasks,
                    rebuilds, completed >>

\* Mail addressed to the sender address of line 128 instead of the recipient.
MailToSender(run, reading) ==
    [to |-> "onboarding@resend.dev",
     subject |-> Verdict(reading, run.alert.threshold),
     userName |-> run.userName,
     reading |-> reading,
     threshold |-> run.alert.threshold,
     alertTime |-> run.alert.alertTime]

\* The mail handed to resend.emails.send (lines 126-132): recipient, subject
\* and the values interpolated into the body.
Mail(run, reading) ==
    [to |-> run.alert.alertEmail,
     subject |-> Verdict(reading, run.alert.threshold),
     userName |-> run.userName,
     reading |-> reading,
     threshold |-> run.alert.threshold,
     alertTime |-> run.alert.alertTime]

\* fetch / response.json() settle (lines 83-91), then the verdict is computed
\* (lines 97-121) and, with a Notifier, the send is issued (lines 124-132).
RunFetch(i, reading) ==
    /\ Alive
    /\ i \in 1 .. Len(runs)
    /\ runs[i].pc = "fetch"
    /\ IF reading.kind \in CaughtFetchFailures
       THEN /\ runs' = [runs EXCEPT ![i].pc = "done", ![i].result = "fetchFailed",
                                    ![i].reading = reading]
            /\ exited' = exited
       ELSE IF reading.kind = "noList"
       THEN /\ runs' = [runs EXCEPT ![i].pc = "rejected", ![i].result = "typeError",
                                    ![i].reading = reading]
            /\ exited' = Unhandled(<< "run", i >>)
       ELSE /\ runs' = [runs EXCEPT
                  ![i].pc = IF resend THEN "send" ELSE "done",
                  ![i].result = IF resend THEN "" ELSE "skipped",
                  ![i].reading = reading,
                  ![i].evals = @ + 1,
                  ![i].verdict = Verdict(reading, runs[i].alert.threshold),
                  ![i].mails = IF resend THEN Append(@, Mail(runs[i], reading)) ELSE @]
            /\ exited' = exited
    /\ UNCHANGED << started, resend, rejections, store, nextId, tasks,
                    rebuilds, completed >>

\* RunSend that sends the same mail again when the send failed.
RunSendAgain(i, outcome) ==
    /\ Alive
    /\ i \in 1 .. Len(runs)
    /\ runs[i].pc = "send"
    /\ runs' = IF outcome = "ok"
               THEN [runs EXCEPT ![i].pc = "done", ![i].result = "sent"]
               ELSE [runs EXCEPT ![i].mails = Append(@, @[1])]
    /\ UNCHANGED << started, resend, rejections, exited, store, nextId, tasks,
                    rebuilds, completed >>

\* RunSend that starts the firing's fetch over when the send failed.
RunSendRetry(i, outcome) ==
    /\ Alive
    /\ i \in 1 .. Len(runs)
    /\ runs[i].pc = "send"
    /\ runs' = IF outcome = "ok"
               THEN [runs EXCEPT ![i].pc = "done", ![i].result = "sent"]
               ELSE [runs EXCEPT ![i].pc = "fetch", ![i].result = "sendFailed",
                                 ![i].fetches = @ + 1]
    /\ UNCHANGED << started, resend, rejections, exited, store, nextId, tasks,
                    rebuilds, completed >>

\* resend.emails.send settles (lines 133-141): an error result is thrown and
\* caught like a thrown one.
RunSend(i, outcome) ==
    /\ Alive
    /\ i \in 1 .. Len(runs)
    /\ runs[i].pc = "send"
    /\ runs' = [runs EXCEPT ![i].pc = "done",
                            ![i].result = IF outcome = "ok" THEN "sent" ELSE "sendFailed"]
    /\ UNCHANGED << started, resend, rejections, exited, store, nextId, tasks,
                    rebuilds, completed >>

Init ==
    /\ started = FALSE
    /\ resend \in BOOLEAN
    /\ rejections \in { "throw", "warn" }
    /\ exited = << >>
    /\ store \in PersistedStores
    /\ nextId = Len(store) + 1
    /\ tasks = << >>
    /\ rebuilds = << >>
    /\ completed = << >>
    /\ runs = << >>

Next ==
    \/ Listen
    \/ \E r \in 1 .. MaxRebuilds : RebuildInstall(r)
    \/ \E r \in 1 .. MaxRebuilds : RebuildListFails(r)
    \/ \E body \in Bodies : PostAlert(body)
    \/ PostAlertCreateFails
    \/ \E id \in 1 .. (MaxPersisted + MaxRebuilds) : StoreDelete(id)
    \/ \E t \in 1 .. Len(tasks) : Fire(t)
    \/ \E i \in 1 .. MaxFirings, outcome \in LookupOutcomes : RunLookup(i, outcome)
    \/ \E i \in 1 .. MaxFirings, reading \in Readings : RunFetch(i, reading)
    \/ \E i \in 1 .. MaxFirings, outcome \in SendOutcomes : RunSend(i, outcome)

Spec == Init /\ [][Next]_vars

\* The same program with no POST /alert traffic: the startup rebuild over
\* the persisted table, rows removed by other clients, and the firings.
NextFirings ==
    \/ Listen
    \/ \E r \in 1 .. MaxRebuilds : RebuildInstall(r)
    \/ \E r \in 1 .. MaxRebuilds : RebuildListFails(r)
    \/ \E id \in 1 .. MaxPersisted : StoreDelete(id)
    \/ \E t \in 1 .. Len(tasks) : Fire(t)
    \/ \E i \in 1 .. MaxFirings, outcome \in LookupOutcomes : RunLookup(i, outcome)
    \/ \E i \in 1 .. MaxFirings, reading \in Readings : RunFetch(i, reading)
    \/ \E i \in 1 .. MaxFirings, outcome \in SendOutcomes : RunSend(i, outcome)

SpecFirings == Init /\ [][NextFirings]_vars

\* The program with no POST /alert traffic while another client of the
\* database rewrites rows.
NextEdits ==
    \/ Listen
    \/ \E r \in 1 .. MaxRebuilds : RebuildInstall(r)
    \/ \E r \in 1 .. MaxRebuilds : RebuildListFails(r)
    \/ \E id \in 1 .. MaxPersisted : StoreUpdate(id)
    \/ \E t \in 1 .. Len(tasks) : Fire(t)
    \/ \E i \in 1 .. MaxFirings, outcome \in LookupOutcomes : RunLookup(i, outcome)
    \/ \E i \in 1 .. MaxFirings, reading \in Readings : RunFetch(i, reading)
    \/ \E i \in 1 .. MaxFirings, outcome \in SendOutcomes : RunSend(i, outcome)

SpecEdits == Init /\ [][NextEdits]_vars

\* A fresh deployment (empty Alert table) with POST /alert traffic, in which
\* up to MaxConcurrent invocations of checkAqiAndSendAlert are followed.
InitFresh == Init /\ store = << >>

NextConcurrent ==
    \/ Listen
    \/ \E r \in 1 .. MaxRebuilds : RebuildInstall(r)
    \/ \E r \in 1 .. MaxRebuilds : RebuildListFails(r)
    \/ \E body \in Bodies : PostAlert(body)
    \/ \E t \in 1 .. Len(tasks) : FireWithin(t, MaxConcurrent)
    \/ \E i \in 1 .. MaxConcurrent, outcome \in LookupOutcomes : RunLookup(i, outcome)
    \/ \E i \in 1 .. MaxConcurrent, reading \in Readings : RunFetch(i, reading)
    \/ \E i \in 1 .. MaxConcurrent, outcome \in SendOutcomes : RunSend(i, outcome)

SpecConcurrent == InitFresh /\ [][NextConcurrent]_vars

\* ------------------------------------------------------------------ claims
Rebuilds == 1 .. Len(rebuilds)
Runs == 1 .. Len(runs)

NoRebuildInProgress == \A r \in Rebuilds : rebuilds[r].pc # "await"

\* Rebuild r overlapped no other: every earlier one had finished when it
\* started and it had finished when the next one started.
Sequential(r) ==
    /\ rebuilds[r].doneAtStart = 1 .. (r - 1)
    /\ r < Len(rebuilds) => r \in rebuilds[r + 1].doneAtStart

LastCompleted == completed[Len(completed)]

\* Position of a finished rebuild in the order of completion.
Pos(r) == CHOOSE j \in 1 .. Len(completed) : completed[j] = r

TimersOf(id) == { t \in ActiveTimers : tasks[t].alert.id = id }

WellFormed(alerts) == { k \in 1 .. Len(alerts) : ValidCron(alerts[k].alertTime) }

\* C1: a firing whose fetch returned a well-formed payload has the
\* high-pollution verdict iff index > threshold (so index = threshold is safe).
C1_TriggeredIffExceeds ==
    \A i \in Runs :
        (runs[i].reading.kind = "ok" /\ Finite(runs[i].alert.threshold)) =>
            /\ runs[i].verdict \in { "high", "safe" }
            /\ runs[i].verdict = "high"
                  <=> runs[i].reading.aqi > runs[i].alert.threshold.value

\* A firing evaluated an index equal to its threshold and found it safe.
C1_Witness ==
    \E i \in Runs :
        /\ runs[i].reading.kind = "ok"
        /\ Finite(runs[i].alert.threshold)
        /\ runs[i].reading.aqi = runs[i].alert.threshold.value
        /\ runs[i].verdict = "safe"

\* C2: when a rebuild has completed and none is in progress, the number of
\* active timers is the number of well-formed rules the Rule Store returned
\* to the rebuild that completed last.
C2_TimersMatchSnapshot ==
    (Alive /\ completed # << >> /\ NoRebuildInProgress
        /\ rebuilds[LastCompleted].returned) =>
        Cardinality(ActiveTimers)
            = Cardinality(WellFormed(rebuilds[LastCompleted].alerts))

\* C3: after two rebuilds, the second started after the first completed, that
\* were given the same rules, every rule has exactly one active timer and no
\* task handle of the first rebuild is still in the scheduler's registry.
C3_TwoRebuildsNoLeak ==
    \A r1, r2 \in Rebuilds :
        (/\ Alive
         /\ r2 = r1 + 1 /\ r2 = Len(rebuilds)
         /\ Sequential(r1) /\ r1 \in rebuilds[r2].doneAtStart
         /\ rebuilds[r1].pc = "done" /\ rebuilds[r2].pc = "done"
         /\ rebuilds[r1].alerts = rebuilds[r2].alerts) =>
            /\ \A k \in 1 .. Len(rebuilds[r2].alerts) :
                  Cardinality(TimersOf(rebuilds[r2].alerts[k].id)) = 1
            /\ \A t \in 1 .. Len(tasks) : tasks[t].by # r1

\* C4: after two overlapping rebuilds have both completed, every rule of the
\* snapshot has exactly one active timer.
C4_OverlappingRebuildsSerialized ==
    \A r1, r2 \in Rebuilds :
        (/\ Alive
         /\ r1 < r2 /\ r1 \notin rebuilds[r2].doneAtStart
         /\ rebuilds[r1].pc = "done" /\ rebuilds[r2].pc = "done"
         /\ NoRebuildInProgress) =>
            \A k \in 1 .. Len(rebuilds[LastCompleted].alerts) :
                Cardinality(TimersOf(rebuilds[LastCompleted].alerts[k].id)) = 1

\* C5: when the listing of a rebuild fails, the active timers are those that
\* were active before the rebuild started.
C5_ListFailureKeepsTimers ==
    \A r \in Rebuilds :
        (/\ Alive
         /\ r = Len(rebuilds) /\ Sequential(r)
         /\ rebuilds[r].pc = "rejected" /\ ~rebuilds[r].returned) =>
            ActiveTimers = rebuilds[r].before

\* C6: when a rebuild has completed, every rule of its snapshot with a
\* well-formed fireTime has an active timer installed by it, wherever the
\* malformed rules are in the snapshot.
C6_OnlyMalformedSkipped ==
    \A r \in Rebuilds :
        (/\ Alive
         /\ r = Len(rebuilds) /\ Sequential(r)
         /\ rebuilds[r].returned) =>
            \A k \in WellFormed(rebuilds[r].alerts) :
                \E t \in ActiveTimers :
                    /\ tasks[t].by = r
                    /\ tasks[t].alert = rebuilds[r].alerts[k]

\* C7: a Runner invocation that started after rebuild r completed was started
\* by a timer of r or of a later rebuild (one that started or completed
\* after r).
C7_NoStaleFiring ==
    \A i \in Runs :
        \A j \in 1 .. runs[i].nDone :
            \/ runs[i].by >= completed[j]
            \/ Pos(runs[i].by) > j

\* C8: while a rebuild waits for the Rule Store, a rule that had an active
\* timer before the rebuild and is still in the store has an active timer.
C8_AtomicReplace ==
    \A r \in Rebuilds :
        (/\ Alive
         /\ r = Len(rebuilds)
         /\ rebuilds[r].doneAtStart = 1 .. (r - 1)
         /\ rebuilds[r].pc = "await") =>
            \A t \in rebuilds[r].before :
                tasks[t].alert \in Range(store) => TimersOf(tasks[t].alert.id) # { }

\* C9: a firing whose reading fetch failed (network error, non-success
\* response, malformed payload) handed no mail to the Notifier and did not
\* take the process, and with it the rule's timer, down.
C9_FetchFailureNoSend ==
    \A i \in Runs :
        runs[i].reading.kind \in FetchFailures =>
            /\ runs[i].mails = << >>
            /\ exited # << "run", i >>

\* C10: no rebuild and no firing ends as a rejected promise that nobody
\* handles, and none terminates the process.
C10_NoFailureEscapes ==
    /\ \A r \in Rebuilds : rebuilds[r].pc # "rejected"
    /\ \A i \in Runs : runs[i].pc # "rejected"
    /\ exited = << >>

\* C11: a firing whose owner lookup failed, or found no name, went on with
\* the placeholder name and fetched the reading.
C11_LookupFailureNotFatal ==
    \A i \in Runs :
        (runs[i].pc # "lookup"
            /\ (runs[i].result = "lookupRejected" \/ runs[i].userName = "User")) =>
            /\ runs[i].userName = "User"
            /\ runs[i].fetches = 1

C13_AtMostOneSend ==
    \A i \in Runs : Len(runs[i].mails) <= 1

\* A firing whose one send failed has ended.
C13_Witness ==
    \E i \in Runs :
        runs[i].pc = "done" /\ runs[i].result = "sendFailed" /\ Len(runs[i].mails) = 1

\* C14: a firing whose fetch returned a well-formed payload has, with a
\* Notifier, issued exactly one send, to the alertEmail of the alert bound to
\* its timer and with the subject and body values of its own verdict; with
\* no Notifier it sent nothing and ended normally.
C14_ExactlyOneSendOfVerdict ==
    \A i \in Runs :
        runs[i].reading.kind = "ok" =>
            IF resend
            THEN /\ Len(runs[i].mails) = 1
                 /\ runs[i].mails[1].to = tasks[runs[i].task].alert.alertEmail
                 /\ runs[i].mails[1].subject = runs[i].verdict
                 /\ runs[i].mails[1].reading = runs[i].reading
                 /\ runs[i].mails[1].threshold = tasks[runs[i].task].alert.threshold
            ELSE /\ runs[i].mails = << >>
                 /\ runs[i].pc = "done"
                 /\ runs[i].result = "skipped"

\* A firing found high pollution and its mail was accepted.
C14_Witness ==
    \E i \in Runs :
        /\ resend
        /\ runs[i].reading.kind = "ok"
        /\ runs[i].verdict = "high"
        /\ runs[i].result = "sent"
        /\ Len(runs[i].mails) = 1

\* C15: a firing whose send failed has ended, having fetched once, evaluated
\* once and sent once.
C15_NoRetryAfterSendFailure ==
    \A i \in Runs :
        runs[i].result = "sendFailed" =>
            /\ runs[i].pc = "done"
            /\ runs[i].fetches = 1
            /\ runs[i].evals = 1
            /\ Len(runs[i].mails) = 1

\* The send of a firing that had evaluated a reading failed.
C15_Witness ==
    \E i \in Runs :
        runs[i].result = "sendFailed" /\ runs[i].verdict # "" /\ runs[i].evals = 1

InFlight(i) == runs[i].pc \in { "lookup", "fetch", "send" }

\* C16: no two invocations of checkAqiAndSendAlert for the same rule are in
\* flight together.  (Two firings of one timer are a day apart and are left
\* out: the invocations compared come from different timers.)
C16_NoConcurrentRunsPerRule ==
    \A i, j \in Runs :
        (i # j /\ InFlight(i) /\ InFlight(j) /\ runs[i].task # runs[j].task) =>
            runs[i].alert.id # runs[j].alert.id

\* C17: whatever happened to the Runner of one rule, the scheduled timer of
\* every other rule still fires: no firing has taken the process, and the
\* timers of the other rules with it, down.
C17_FiringsIndependent ==
    \A i \in Runs :
        \A t \in 1 .. Len(tasks) :
            (tasks[t].running /\ tasks[t].alert.id # runs[i].alert.id) =>
                exited # << "run", i >>

\* C18: once POST /alert has answered 'Alert created successfully and
\* scheduled.' for a rule, the rule (while it is in the table, with a
\* well-formed alertTime) has an active timer.
C18_ScheduledWhenAnswered ==
    \A r \in Rebuilds :
        (/\ Alive
         /\ rebuilds[r].created # 0
         /\ \E k \in 1 .. Len(store) :
               store[k].id = rebuilds[r].created /\ ValidCron(store[k].alertTime)) =>
            TimersOf(rebuilds[r].created) # { }

\* The alert of firing i as the rebuild that installed its timer was given it.
SnapshotOf(i) ==
    CHOOSE a \in Range(rebuilds[runs[i].by].alerts) : a.id = runs[i].alert.id

\* C19: a firing compares against the threshold, and mails the recipient
\* with the fire time, of the alert as the rebuild that installed its timer
\* read it, whatever the table holds for that rule by then.
C19_FiringUsesSnapshot ==
    \A i \in Runs :
        /\ runs[i].verdict # "" =>
              runs[i].verdict = Verdict(runs[i].reading, SnapshotOf(i).threshold)
        /\ \A m \in 1 .. Len(runs[i].mails) :
              /\ runs[i].mails[m].to = SnapshotOf(i).alertEmail
              /\ runs[i].mails[m].threshold = SnapshotOf(i).threshold
              /\ runs[i].mails[m].alertTime = SnapshotOf(i).alertTime
              /\ runs[i].mails[m].subject
                    = Verdict(runs[i].reading, SnapshotOf(i).threshold)

\* A firing sent its mail for a rule whose row had been rewritten after the
\* rebuild and before the firing's lookup.
C19_Witness ==
    \E i \in Runs :
        /\ Len(runs[i].mails) = 1
        /\ runs[i].nDone = Len(completed)
        /\ runs[i].reading.kind = "ok"
        /\ runs[i].reading.aqi = 3
        /\ \E k \in 1 .. Len(store) :
              /\ store[k].id = runs[i].alert.id
              /\ store[k] = Edited(SnapshotOf(i))
              /\ store[k] # SnapshotOf(i)

\* The row of the alert of firing i is not in the table.
RowGone(i) == \A k \in 1 .. Len(store) : store[k].id # runs[i].alert.id

\* C20: a firing whose lookup settles when the row of its rule is no longer
\* in the table ends there, with no fetch of a reading and no mail sent, and
\* an ended firing does nothing more.
C20_RemovedRuleEndsAfterLookup ==
    [][\A i \in Runs :
          /\ (runs[i].pc = "lookup" /\ runs'[i].pc # "lookup" /\ RowGone(i)) =>
                /\ runs'[i].pc \in { "done", "rejected" }
                /\ runs'[i].fetches = 0
                /\ runs'[i].evals = 0
                /\ runs'[i].mails = << >>
          /\ runs[i].pc \in { "done", "rejected" } => runs'[i] = runs[i]]_vars

\* A firing of a timer whose rule was removed after the rebuild has ended
\* at the lookup.
C20_Witness ==
    \E i \in Runs :
        /\ runs[i].result = "notFound"
        /\ runs[i].pc = "done"
        /\ RowGone(i)
        /\ tasks[runs[i].task].alert.id = runs[i].alert.id
        /\ runs[i].fetches = 0
        /\ runs[i].mails = << >>
====
